---- MODULE Spec2Model ----
(***************************************************************************)
(* A model of redismb: Subscribers of a consumer group reading Redis       *)
(* streams, acknowledging, reclaiming and rejecting messages, and the      *)
(* Publisher that appends to the streams.                                  *)
(*                                                                         *)
(* The store executes one command at a time.  Every Subscriber sends its   *)
(* commands over one connection, which the store serves in the order they  *)
(* were sent: queue[s] holds the commands of Subscriber s that were sent   *)
(* and are not executed yet.  An action executes the head of a queue at    *)
(* the store and runs the code that handles the reply, which may send      *)
(* further commands.  Time is the action Tick.                             *)
(***************************************************************************)
EXTENDS Integers, Sequences, FiniteSets, TLC

\* The model's bounds.
MaxMsgs == 1
MaxBatch == 2
MaxRetries == 1
Timeout == 1
MaxDrain == 1
MaxOverlap == 1
MaxTime == 2

\* XPENDING's COUNT argument.
PendingPage == 20

Subs == {"s1", "s2"}
Channels == {"c1", "c2"}
Groups == {"g", "h"}
Keys == Channels \X Groups

Undefined == "undefined"
Rejections == "rejections"
Outcomes == {"resolve", "reject", "throw"}

VARIABLES
    stream,           \* channel -> sequence of entries [id, fields]
    groups,           \* <<channel, group>> -> [exists, last, consumers]
    pel,              \* <<channel, group>> -> set of pending entries [id, owner, idle, cnt]
    rejections,       \* the dead-letter stream: sequence of [fields, src, by]
    nextId,           \* the next entry id the store assigns
    budget,           \* how many messages the producers append in all
    outcome,          \* message id -> what the processing callback does with it
    channels,         \* Subscriber -> this.channels
    group,            \* Subscriber -> this.group
    retries,          \* Subscriber -> this.retries
    messages,         \* Subscriber -> this.messages
    interval,         \* Subscriber -> this.interval > 0
    overlap,          \* how many cycles of one Subscriber run at a time, at most
    continueReading,  \* Subscriber -> this.continueReading
    readingInterval,  \* Subscriber -> the interval timer is set and not cleared
    loop,             \* Subscriber -> "absent", "new", "running", "ended", "crashed"
    queue,            \* Subscriber -> commands sent and not yet executed
    unsub,            \* Subscriber -> "none", "waiting", "deleting", "returned", "failed"
    drain,            \* Subscriber -> the drain delay unsubscribe was called with
    waited,           \* Subscriber -> time elapsed since unsubscribe was called
    result,           \* Subscriber -> what unsubscribe returned
    removed,          \* Subscriber -> channels its DELCONSUMER was executed on
    held,             \* Subscriber -> what was pending for it when unsubscribe was
                      \* called: pairs of a group's key and a message id
    att,              \* message id -> the callback invocations made for it, in order
    statusLog,        \* set of [id, status, sub]: acknowledgments logged
    maxRetries,       \* message id -> times logEventError got MAX_RETRIES for it
    redis,            \* the connection of redis.js is set, in the process that
                      \* publishes, handles rejected messages and calls the
                      \* constructors (running Subscribers have their own)
    now,              \* the store's clock, the time part of the ids it assigns
    made,             \* "pub" or Subscriber -> what its constructor did
    pubRet,           \* the last call of publish: its arguments, the id returned, the error
    stopRet,          \* what the last call of stop returned
    adm               \* the last call of readRejectedMessages or reprocessRejectedMessages

storeVars == <<stream, groups, pel, rejections, nextId, budget, outcome>>
cfgVars == <<channels, group, retries, messages, interval, overlap>>
subVars == <<continueReading, readingInterval, loop, queue>>
unsubVars == <<unsub, drain, waited, result, removed, held>>
histVars == <<att, statusLog, maxRetries>>
admVars == <<redis, now, made, pubRet, stopRet, adm>>
vars == <<storeVars, cfgVars, subVars, unsubVars, histVars, admVars>>

Ids == 1..(MaxMsgs + MaxBatch)

Range(f) == {f[i] : i \in DOMAIN f}

\* A parameter object has the property, and its value is not undefined.
Has(o, f) == f \in DOMAIN o

Min(a, b) == IF a < b THEN a ELSE b

RECURSIVE SetToSeq(_)
\* The ids of a set in increasing order.
SetToSeq(S) ==
    IF S = {} THEN <<>>
    ELSE LET m == CHOOSE x \in S : \A y \in S : x <= y
         IN <<m>> \o SetToSeq(S \ {m})

Take(q, n) == SubSeq(q, 1, Min(n, Len(q)))

(***************************************************************************)
(* Message codec                                                           *)
(***************************************************************************)

\* A stored field is <<"json", v>>, the serialization of v, or <<"raw", text>>,
\* text that is no JSON.
\* JSON.stringify(data)
Stringify(data) == <<"json", data>>

\* JSON.parse(value), falling back to the raw value
ParseData(value) == IF value[1] = "json" THEN value[2] ELSE value

\* Subscriber.#parseMessages, for one record
ParseMessage(s, e) ==
    [id |-> e.id,
     action |-> e.fields[1],
     data |-> ParseData(e.fields[2]),
     clientId |-> s,
     group |-> IF Len(e.fields) >= 4 THEN e.fields[4] ELSE Undefined]

Entry(ch, id) == CHOOSE e \in Range(stream[ch]) : e.id = id

\* Subscriber.#filterMessages: the predicate shouldReceiveMessage
ShouldReceiveMessage(s, msg) ==
    msg.group = Undefined \/ msg.group = "" \/ msg.group = group[s]

\* Subscriber.#filterPendingMessages: the predicate hasExceededLimitOfAttempts
HasExceededLimitOfAttempts(s, attempts) == attempts > retries[s]

(***************************************************************************)
(* The store's commands                                                    *)
(***************************************************************************)

Cmd(c, i, ids, arg, rest, first) ==
    [cmd |-> c, ch |-> i, ids |-> ids, arg |-> arg, rest |-> rest, first |-> first]

IsCycleCmd(c) == c.cmd \in {"XREADGROUP", "XPENDING", "XCLAIM"}

\* The cycles of Subscriber s that are in progress.
Cycles(s) == Len(SelectSeq(queue[s], IsCycleCmd))

Key(s, i) == <<channels[s][i], group[s]>>

\* The entries of channel ch never delivered to group g, oldest first.
NewEntries(ch, g) == SelectSeq(stream[ch], LAMBDA e : e.id > groups[<<ch, g>>].last)

\* An XREADGROUP that delivers from the start of the stream.
XReadBatch_FromStart(s, i) == Take(stream[channels[s][i]], messages[s])

\* XREADGROUP GROUP g s COUNT n STREAMS ch >: the entries it delivers.
XReadBatch(s, i) == Take(NewEntries(channels[s][i], group[s]), messages[s])

\* XREADGROUP's effect on one group: the batch becomes pending for s with
\* delivery count 1, the cursor moves past it, s is a consumer of the group.
XReadGroupAt(k, s, batch) ==
    [g |-> [groups[k] EXCEPT
              !.last = IF batch = <<>> THEN @ ELSE batch[Len(batch)].id,
              !.consumers = @ \cup {s}],
     p |-> pel[k] \cup {[id |-> batch[j].id, owner |-> s, idle |-> 0, cnt |-> 1]
                          : j \in DOMAIN batch}]

\* XPENDING ch g IDLE timeout - + 20: ids and delivery counts, oldest first.
XPending(k) ==
    LET idle == {p \in pel[k] : p.idle >= Timeout}
    IN Take(SetToSeq({p.id : p \in idle}), PendingPage)

PelCnt(k, id) == (CHOOSE p \in pel[k] : p.id = id).cnt

\* An XCLAIM with no minimum idle time.
XClaimed_AnyIdle(k, ids) ==
    SelectSeq(ids, LAMBDA id : \E p \in pel[k] : p.id = id)

\* XCLAIM ch g s timeout ids: the pending entries among ids that are idle for
\* at least the timeout.
XClaimed(k, ids) ==
    SelectSeq(ids, LAMBDA id : \E p \in pel[k] : p.id = id /\ p.idle >= Timeout)

\* XCLAIM's effect on the pending entries: a new owner, idle time 0, one more
\* delivery.
XClaimPel(k, s, ids) ==
    LET got == Range(XClaimed(k, ids))
    IN {IF p.id \in got
        THEN [id |-> p.id, owner |-> s, idle |-> 0, cnt |-> p.cnt + 1]
        ELSE p : p \in pel[k]}

\* The entry is pending for s as XREADGROUP delivered it, and the ack timeout
\* has not elapsed for it.
InTime(k, s, id) ==
    \E p \in pel[k] : p.id = id /\ p.owner = s /\ p.cnt = 1 /\ p.idle < Timeout

\* An XACK that removes nothing from the pending entries.
XAck_Lost(k, ids) == pel[k]

\* XACK ch g ids
XAck(k, ids) == {p \in pel[k] : p.id \notin Range(ids)}

\* XGROUP DELCONSUMER ch g s: the consumer goes, and its pending entries with it.
XDelConsumerPel(k, s) == {p \in pel[k] : p.owner # s}

(***************************************************************************)
(* Subscriber                                                              *)
(***************************************************************************)

\* One invocation of the processing callback: st is "running", "resolved",
\* "rejected" or "threw"; errs counts logEventError(err, channel, message) for
\* it, errsBare counts logEventError(err); late tells that the ack timeout had
\* elapsed for the message, or that it had been claimed, when the callback's
\* promise was fulfilled.
Attempt(s, i, via, st, errs, bare) ==
    [sub |-> s, ch |-> i, via |-> via, st |-> st, errs |-> errs, errsBare |-> bare,
     late |-> FALSE]

RECURSIVE ProcessMessages(_, _, _, _, _, _)
\* Subscriber.#processMessages: the callback is invoked for the messages in
\* order.  A callback that raises ends the map and the cycle: the first cycle
\* of #continualRead is awaited in its try, which passes the error alone to
\* logEventError, and no later cycle is awaited.  A callback whose promise is
\* rejected gets logEventError(err, channel, message) and no acknowledgment
\* (the rejection is taken at the invocation: nothing but the error callback
\* follows from it).  The result is the invocations made and whether one
\* raised.
ProcessMessages(a, s, i, ids, via, first) ==
    IF ids = <<>> THEN [att |-> a, threw |-> FALSE]
    ELSE LET id == Head(ids)
         IN IF outcome[id] = "throw"
            THEN [att |-> [a EXCEPT ![id] = Append(@,
                              Attempt(s, i, via, "threw", 0, IF first THEN 1 ELSE 0))],
                  threw |-> TRUE]
            ELSE ProcessMessages(
                     [a EXCEPT ![id] = Append(@,
                         IF outcome[id] = "reject"
                         THEN Attempt(s, i, via, "rejected", 1, 0)
                         ELSE Attempt(s, i, via, "running", 0, 0))],
                     s, i, Tail(ids), via, first)

\* Subscriber.#processMessages: callback({ channel, ...message }), the message
\* the callback of s gets for the entry id of its channel i.
CallbackMessage(s, i, id) ==
    LET message == ParseMessage(s, Entry(channels[s][i], id))
    IN [channel |-> channels[s][i], id |-> message.id, action |-> message.action,
        data |-> message.data, group |-> message.group]

\* Subscriber.#filterMessages
FilterMessages(s, parsed) ==
    [receive |-> SelectSeq(parsed, LAMBDA m : ShouldReceiveMessage(s, m)),
     skip |-> SelectSeq(parsed, LAMBDA m : ~ShouldReceiveMessage(s, m))]

\* A partition that sends no entry to rejection.
FilterPendingMessages_NoReject(s, k, ids) ==
    [receive |-> SelectSeq(ids, LAMBDA id : ~HasExceededLimitOfAttempts(s, PelCnt(k, id))),
     reject |-> <<>>]

\* Subscriber.#filterPendingMessages
FilterPendingMessages(s, k, ids) ==
    [receive |-> SelectSeq(ids, LAMBDA id : ~HasExceededLimitOfAttempts(s, PelCnt(k, id))),
     reject |-> SelectSeq(ids, LAMBDA id : HasExceededLimitOfAttempts(s, PelCnt(k, id)))]

MsgIds(parsed) == [j \in DOMAIN parsed |-> parsed[j].id]

RECURSIVE ReadStreams(_, _, _)
\* Subscriber.#readMessages, the loop over the streams of the reply, from
\* stream i on.
ReadStreams(s, i, acc) ==
    IF i > Len(channels[s]) \/ acc.threw THEN acc
    ELSE LET batch == XReadBatch(s, i)
             parsed == [j \in DOMAIN batch |-> ParseMessage(s, batch[j])]
             f == FilterMessages(s, parsed)
             done == IF f.receive # <<>>
                     THEN ProcessMessages(acc.att, s, i, MsgIds(f.receive), "read", acc.first)
                     ELSE [att |-> acc.att, threw |-> FALSE]
             ack == IF f.skip # <<>> /\ ~done.threw
                    THEN <<Cmd("XACK", i, MsgIds(f.skip), "SKIPPED", <<>>, FALSE)>>
                    ELSE <<>>
         IN ReadStreams(s, i + 1,
                [att |-> done.att, threw |-> done.threw,
                 cmds |-> acc.cmds \o ack, first |-> acc.first])

\* What follows the pending sweep of channel i: the sweep of the next channel,
\* or the end of the cycle, where #continualRead starts the next cycle if the
\* flag is still set.
AfterChannel(s, i) ==
    IF i < Len(channels[s]) THEN <<Cmd("XPENDING", i + 1, <<>>, "", <<>>, FALSE)>>
    ELSE IF ~interval[s] /\ continueReading[s]
         THEN <<Cmd("XREADGROUP", 0, <<>>, "", <<>>, FALSE)>>
         ELSE <<>>

\* The loop after a step of the cycle that sent the commands cmds: the
\* continual loop ends when a cycle ends and no other starts, and is broken
\* when the cycle raised.
LoopAfter(s, cmds, threw) ==
    IF interval[s] THEN loop[s]
    ELSE IF threw THEN "crashed"
    ELSE IF \E j \in DOMAIN cmds : IsCycleCmd(cmds[j]) THEN loop[s]
    ELSE "ended"

HeadIs(s, c) == queue[s] # <<>> /\ Head(queue[s]).cmd = c

GroupsExist(s) == \A i \in DOMAIN channels[s] : groups[Key(s, i)].exists

\* A constructor that calls #createGroup before it validates its parameters.
NewSubscriber_GroupFirst(s, o) ==
    /\ made[s] # "OK"
    /\ made' = [made EXCEPT ![s] =
                   IF Has(o, "channels") /\ Has(o, "group") THEN "OK" ELSE "MISSED_VALUE"]
    /\ channels' = [channels EXCEPT ![s] = IF Has(o, "channels") THEN o.channels ELSE @]
    /\ group' = [group EXCEPT ![s] = IF Has(o, "group") THEN o.group ELSE @]
    /\ continueReading' = [continueReading EXCEPT ![s] = TRUE]
    /\ loop' = [loop EXCEPT ![s] =
                   IF Has(o, "channels") /\ Has(o, "group") THEN "new" ELSE @]
    /\ queue' = [queue EXCEPT ![s] =
                    IF channels'[s] # <<>>
                    THEN <<Cmd("XGROUP", 1, <<>>, "", <<>>, FALSE)>>
                    ELSE <<>>]
    /\ UNCHANGED <<storeVars, retries, messages, interval, overlap, readingInterval,
                   unsubVars, histVars, redis, now, pubRet, stopRet, adm>>

\* new Subscriber({ channels, group }): without channels or without group it
\* throws MISSED_VALUE; else the fields are assigned and #createGroup is called,
\* which sends its first XGROUP CREATE if there is a channel.  #createGroup is
\* async and is not awaited: with no connection its REDIS_CONNECTION rejects
\* a promise that nobody holds, and the constructor returns as ever.
NewSubscriber(s, o) ==
    /\ made[s] # "OK"
    /\ IF ~Has(o, "channels") \/ ~Has(o, "group")
       THEN /\ made' = [made EXCEPT ![s] = "MISSED_VALUE"]
            /\ UNCHANGED <<channels, group, continueReading, loop, queue>>
       ELSE /\ made' = [made EXCEPT ![s] = "OK"]
            /\ channels' = [channels EXCEPT ![s] = o.channels]
            /\ group' = [group EXCEPT ![s] = o.group]
            /\ continueReading' = [continueReading EXCEPT ![s] = TRUE]
            /\ loop' = [loop EXCEPT ![s] = "new"]
            /\ queue' = [queue EXCEPT ![s] =
                            IF redis /\ o.channels # <<>>
                            THEN <<Cmd("XGROUP", 1, <<>>, "", <<>>, FALSE)>>
                            ELSE <<>>]
    /\ UNCHANGED <<storeVars, retries, messages, interval, overlap, readingInterval,
                   unsubVars, histVars, redis, now, pubRet, stopRet, adm>>

\* new Publisher({ channel }): without channel it throws MISSED_VALUE.
NewPublisher(o) ==
    /\ made["pub"] # "OK"
    /\ made' = [made EXCEPT !["pub"] = IF Has(o, "channel") THEN "OK" ELSE "MISSED_VALUE"]
    /\ UNCHANGED <<storeVars, cfgVars, subVars, unsubVars, histVars,
                   redis, now, pubRet, stopRet, adm>>

\* A group created at the end of the stream: XGROUP CREATE channel group $.
CreateGroup_FromEnd(s) ==
    /\ HeadIs(s, "XGROUP")
    /\ LET c == Head(queue[s])
           k == Key(s, c.ch)
       IN /\ groups' = [groups EXCEPT ![k] =
                          IF @.exists THEN @
                          ELSE [exists |-> TRUE, last |-> nextId - 1, consumers |-> {}]]
          /\ statusLog' = IF groups[k].exists
                          THEN statusLog \cup
                               {[id |-> groups[k].last, status |-> "BUSYGROUP", sub |-> s]}
                          ELSE statusLog
          /\ queue' = [queue EXCEPT ![s] = Tail(@) \o
                          (IF c.ch < Len(channels[s])
                           THEN <<Cmd("XGROUP", c.ch + 1, <<>>, "", <<>>, FALSE)>>
                           ELSE <<>>)]
    /\ UNCHANGED <<admVars, stream, pel, rejections, nextId, budget, outcome, cfgVars,
                   continueReading, readingInterval, loop, unsubVars, att, maxRetries>>

\* The line #createGroup logs when the store answers BUSYGROUP, with the
\* cursor the group had then.
Busy(s, k) == [id |-> groups[k].last, status |-> "BUSYGROUP", sub |-> s]

\* A group creation that sets the cursor of a group that exists back to 0.
CreateGroup_Reset(s) ==
    /\ HeadIs(s, "XGROUP")
    /\ LET c == Head(queue[s])
           k == Key(s, c.ch)
       IN /\ groups' = [groups EXCEPT ![k] =
                          IF @.exists THEN [@ EXCEPT !.last = 0]
                          ELSE [exists |-> TRUE, last |-> 0, consumers |-> {}]]
          /\ statusLog' = IF groups[k].exists THEN statusLog \cup {Busy(s, k)}
                          ELSE statusLog
          /\ queue' = [queue EXCEPT ![s] = Tail(@) \o
                          (IF c.ch < Len(channels[s])
                           THEN <<Cmd("XGROUP", c.ch + 1, <<>>, "", <<>>, FALSE)>>
                           ELSE <<>>)]
    /\ UNCHANGED <<admVars, stream, pel, rejections, nextId, budget, outcome, cfgVars,
                   continueReading, readingInterval, loop, unsubVars, att, maxRetries>>

\* Subscriber.#createGroup, one channel: XGROUP CREATE channel group 0 MKSTREAM.
\* BUSYGROUP is caught and logged.
CreateGroup(s) ==
    /\ HeadIs(s, "XGROUP")
    /\ LET c == Head(queue[s])
           k == Key(s, c.ch)
       IN /\ groups' = [groups EXCEPT ![k] =
                          IF @.exists THEN @
                          ELSE [exists |-> TRUE, last |-> 0, consumers |-> {}]]
          /\ statusLog' = IF groups[k].exists THEN statusLog \cup {Busy(s, k)}
                          ELSE statusLog
          /\ queue' = [queue EXCEPT ![s] = Tail(@) \o
                          (IF c.ch < Len(channels[s])
                           THEN <<Cmd("XGROUP", c.ch + 1, <<>>, "", <<>>, FALSE)>>
                           ELSE <<>>)]
    /\ UNCHANGED <<admVars, stream, pel, rejections, nextId, budget, outcome, cfgVars,
                   continueReading, readingInterval, loop, unsubVars, att, maxRetries>>

\* Subscriber.#createGroup, XGROUP CREATE fails with another error than
\* BUSYGROUP (the key holds no stream, say): the error is thrown again out of
\* the loop, no group is created on the channels that follow, and the promise
\* of #createGroup, which nobody holds, is rejected.
CreateGroupFails(s) ==
    /\ HeadIs(s, "XGROUP")
    /\ ~groups[Key(s, Head(queue[s]).ch)].exists
    /\ queue' = [queue EXCEPT ![s] = Tail(@)]
    /\ UNCHANGED <<admVars, storeVars, cfgVars, continueReading, readingInterval, loop,
                   unsubVars, histVars>>

\* Subscriber.subscribe
Subscribe(s) ==
    /\ loop[s] = "new"
    /\ loop' = [loop EXCEPT ![s] = "running"]
    /\ IF interval[s]
       THEN /\ readingInterval' = [readingInterval EXCEPT ![s] = TRUE]
            /\ UNCHANGED queue
       ELSE /\ queue' = [queue EXCEPT ![s] =
                            Append(@, Cmd("XREADGROUP", 0, <<>>, "", <<>>, TRUE))]
            /\ UNCHANGED readingInterval
    /\ UNCHANGED <<admVars, storeVars, cfgVars, continueReading, unsubVars, histVars>>

\* Subscriber.#intervalRead: the timer fires.
IntervalRead(s) ==
    /\ readingInterval[s]
    /\ continueReading[s]
    /\ Cycles(s) < overlap
    /\ queue' = [queue EXCEPT ![s] =
                    Append(@, Cmd("XREADGROUP", 0, <<>>, "", <<>>, FALSE))]
    /\ UNCHANGED <<admVars, storeVars, cfgVars, continueReading, readingInterval, loop,
                   unsubVars, histVars>>

\* Subscriber.#readMessages: XREADGROUP and the handling of its reply, then the
\* first XPENDING of #readPendingMessages.  The store refuses the command when
\* a group does not exist and when it names no stream.
ReadMessages(s) ==
    /\ HeadIs(s, "XREADGROUP")
    /\ LET c == Head(queue[s])
           n == Len(channels[s])
           ok == GroupsExist(s) /\ n > 0
           at == [i \in 1..n |-> XReadGroupAt(Key(s, i), s, XReadBatch(s, i))]
           h == IF ok
                THEN ReadStreams(s, 1, [att |-> att, threw |-> FALSE,
                                        cmds |-> <<>>, first |-> c.first])
                ELSE [att |-> att, threw |-> TRUE, cmds |-> <<>>, first |-> c.first]
           sent == h.cmds \o
                   (IF h.threw THEN <<>>
                    ELSE <<Cmd("XPENDING", 1, <<>>, "", <<>>, c.first)>>)
       IN /\ groups' = [k \in Keys |->
                          IF ok /\ \E i \in 1..n : Key(s, i) = k
                          THEN at[CHOOSE i \in 1..n : Key(s, i) = k].g
                          ELSE groups[k]]
          /\ pel' = [k \in Keys |->
                          IF ok /\ \E i \in 1..n : Key(s, i) = k
                          THEN at[CHOOSE i \in 1..n : Key(s, i) = k].p
                          ELSE pel[k]]
          /\ att' = h.att
          /\ queue' = [queue EXCEPT ![s] = Tail(@) \o sent]
          /\ loop' = [loop EXCEPT ![s] = LoopAfter(s, sent, h.threw)]
    /\ UNCHANGED <<admVars, stream, rejections, nextId, budget, outcome, cfgVars, continueReading,
                   readingInterval, unsubVars, statusLog, maxRetries>>

\* Subscriber.#readPendingMessages, one channel: XPENDING, the partition of
\* its reply, and the first XCLAIM.
ReadPendingMessages(s) ==
    /\ HeadIs(s, "XPENDING")
    /\ LET c == Head(queue[s])
           k == Key(s, c.ch)
           ok == groups[k].exists
           f == FilterPendingMessages(s, k, XPending(k))
           sent == IF ~ok THEN <<>>
                   ELSE IF f.receive # <<>>
                   THEN <<Cmd("XCLAIM", c.ch, f.receive, "process", f.reject, c.first)>>
                   ELSE IF f.reject # <<>>
                   THEN <<Cmd("XCLAIM", c.ch, f.reject, "reject", <<>>, c.first)>>
                   ELSE AfterChannel(s, c.ch)
       IN /\ queue' = [queue EXCEPT ![s] = Tail(@) \o sent]
          /\ loop' = [loop EXCEPT ![s] = LoopAfter(s, sent, ~ok)]
    /\ UNCHANGED <<admVars, storeVars, cfgVars, continueReading, readingInterval,
                   unsubVars, histVars>>

\* Subscriber.#claimMessages: XCLAIM and the handling of its reply, which
\* processes the claimed messages or rejects them (#rejectMessages sends its
\* XACK); then the next step of #readPendingMessages.
ClaimMessages(s) ==
    /\ HeadIs(s, "XCLAIM")
    /\ LET c == Head(queue[s])
           k == Key(s, c.ch)
           ok == groups[k].exists
           claimed == IF ok THEN XClaimed(k, c.ids) ELSE <<>>
           done == IF c.arg = "process" /\ claimed # <<>>
                   THEN ProcessMessages(att, s, c.ch, claimed, "claim", c.first)
                   ELSE [att |-> att, threw |-> ~ok]
           ack == IF c.arg = "reject" /\ claimed # <<>>
                  THEN <<Cmd("XACK", c.ch, claimed, "REJECTED", <<>>, FALSE)>>
                  ELSE <<>>
           sent == IF done.threw THEN <<>>
                   ELSE IF c.rest # <<>>
                   THEN <<Cmd("XCLAIM", c.ch, c.rest, "reject", <<>>, c.first)>>
                   ELSE ack \o AfterChannel(s, c.ch)
       IN /\ pel' = [pel EXCEPT ![k] = IF ok THEN XClaimPel(k, s, c.ids) ELSE @]
          /\ groups' = [groups EXCEPT ![k].consumers = IF ok THEN @ \cup {s} ELSE @]
          /\ att' = done.att
          /\ queue' = [queue EXCEPT ![s] = Tail(@) \o sent]
          /\ loop' = [loop EXCEPT ![s] = LoopAfter(s, sent, done.threw)]
    /\ UNCHANGED <<admVars, stream, rejections, nextId, budget, outcome, cfgVars, continueReading,
                   readingInterval, unsubVars, statusLog, maxRetries>>

\* A rejection that appends to the dead-letter stream and acknowledges nothing.
AckMessages_Unacked(s) ==
    /\ HeadIs(s, "XACK")
    /\ LET c == Head(queue[s])
           k == Key(s, c.ch)
           adds == IF c.arg = "REJECTED"
                   THEN [j \in DOMAIN c.ids |-> Cmd("XADD", c.ch, <<c.ids[j]>>, "", <<>>, FALSE)]
                   ELSE <<>>
       IN /\ pel' = [pel EXCEPT ![k] = IF c.arg = "REJECTED" THEN @ ELSE XAck(k, c.ids)]
          /\ statusLog' = statusLog \cup
                {[id |-> id, status |-> c.arg, sub |-> s] : id \in Range(c.ids)}
          /\ maxRetries' = [id \in Ids |->
                IF c.arg = "REJECTED" /\ id \in Range(c.ids)
                THEN maxRetries[id] + 1 ELSE maxRetries[id]]
          /\ queue' = [queue EXCEPT ![s] = Tail(@) \o adds]
    /\ UNCHANGED <<admVars, stream, groups, rejections, nextId, budget, outcome, cfgVars,
                   continueReading, readingInterval, loop, unsubVars, att>>

\* Subscriber.#ackMessages: XACK, then the status is logged.  After the XACK of
\* #rejectMessages, logEventError gets MAX_RETRIES for every message and the
\* XADD to the dead-letter stream is sent.
AckMessages(s) ==
    /\ HeadIs(s, "XACK")
    /\ LET c == Head(queue[s])
           k == Key(s, c.ch)
           adds == IF c.arg = "REJECTED"
                   THEN [j \in DOMAIN c.ids |-> Cmd("XADD", c.ch, <<c.ids[j]>>, "", <<>>, FALSE)]
                   ELSE <<>>
       IN /\ pel' = [pel EXCEPT ![k] = XAck(k, c.ids)]
          /\ statusLog' = statusLog \cup
                {[id |-> id, status |-> c.arg, sub |-> s] : id \in Range(c.ids)}
          /\ maxRetries' = [id \in Ids |->
                IF c.arg = "REJECTED" /\ id \in Range(c.ids)
                THEN maxRetries[id] + 1 ELSE maxRetries[id]]
          /\ queue' = [queue EXCEPT ![s] = Tail(@) \o adds]
    /\ UNCHANGED <<admVars, stream, groups, rejections, nextId, budget, outcome, cfgVars,
                   continueReading, readingInterval, loop, unsubVars, att>>

\* Subscriber.#rejectMessages with an error callback that raises when it gets
\* MAX_RETRIES: after the XACK, the async function mapped over the messages
\* calls logEventError first, which raises, so its promise is rejected and its
\* redis.xadd is never reached; nobody holds the promise of Promise.all.
AckMessagesErrorRaises(s) ==
    /\ HeadIs(s, "XACK")
    /\ Head(queue[s]).arg = "REJECTED"
    /\ LET c == Head(queue[s])
           k == Key(s, c.ch)
       IN /\ pel' = [pel EXCEPT ![k] = XAck(k, c.ids)]
          /\ statusLog' = statusLog \cup
                {[id |-> id, status |-> c.arg, sub |-> s] : id \in Range(c.ids)}
          /\ maxRetries' = [id \in Ids |->
                IF id \in Range(c.ids) THEN maxRetries[id] + 1 ELSE maxRetries[id]]
          /\ queue' = [queue EXCEPT ![s] = Tail(@)]
    /\ UNCHANGED <<admVars, stream, groups, rejections, nextId, budget, outcome, cfgVars,
                   continueReading, readingInterval, loop, unsubVars, att>>

\* XADD rejections * fields: the id the store assigns is its clock and a
\* sequence number.  A deleted entry keeps its place, marked del, as the store
\* keeps the last id it assigned.  src is the message rejected and by the
\* Subscriber that rejected it.
XAddRejections(fields, src, by) ==
    Append(rejections,
           [id |-> <<now, Len(rejections) + 1>>, fields |-> fields, del |-> FALSE,
            src |-> src, by |-> by])

\* Subscriber.#rejectMessages: XADD rejections * action data group channel
RejectMessages(s) ==
    /\ HeadIs(s, "XADD")
    /\ LET c == Head(queue[s])
           ch == channels[s][c.ch]
           msg == ParseMessage(s, Entry(ch, c.ids[1]))
       IN rejections' = XAddRejections(
              <<msg.action, Stringify(msg.data), group[s], ch>>, msg.id, s)
    /\ queue' = [queue EXCEPT ![s] = Tail(@)]
    /\ UNCHANGED <<admVars, stream, groups, pel, nextId, budget, outcome, cfgVars, continueReading,
                   readingInterval, loop, unsubVars, histVars>>

\* Subscriber.#processMessages, the callback's promise is fulfilled: XACK, and
\* the message is logged as CONFIRMED.  (The XACK is sent when the promise is
\* fulfilled, which is any time after the invocation.)
CallbackResolves(s, id, n) ==
    /\ n \in DOMAIN att[id]
    /\ att[id][n].sub = s
    /\ att[id][n].st = "running"
    /\ LET k == Key(s, att[id][n].ch)
       IN pel' = [pel EXCEPT ![k] = XAck(k, <<id>>)]
    /\ att' = [att EXCEPT ![id][n].st = "resolved",
                           ![id][n].late = ~InTime(Key(s, att[id][n].ch), s, id)]
    /\ statusLog' = statusLog \cup {[id |-> id, status |-> "CONFIRMED", sub |-> s]}
    /\ UNCHANGED <<admVars, stream, groups, rejections, nextId, budget, outcome, cfgVars, subVars,
                   unsubVars, maxRetries>>

\* The messages that are pending for the Subscriber: it read or claimed them
\* and they are not acknowledged.
Held(s) == {x \in Keys \X Ids : \E p \in pel[x[1]] : p.id = x[2] /\ p.owner = s}

\* Subscriber.unsubscribe, up to the wait: _stopReading, and the timer of
\* _setTimeout is started.
Unsubscribe(s, d) ==
    /\ unsub[s] = "none"
    /\ loop[s] \notin {"absent", "new"}
    /\ continueReading' = [continueReading EXCEPT ![s] = FALSE]
    /\ readingInterval' = [readingInterval EXCEPT ![s] = FALSE]
    /\ unsub' = [unsub EXCEPT ![s] = "waiting"]
    /\ drain' = [drain EXCEPT ![s] = d]
    /\ waited' = [waited EXCEPT ![s] = 0]
    /\ held' = [held EXCEPT ![s] = Held(s)]
    /\ UNCHANGED <<admVars, storeVars, cfgVars, loop, queue, result, removed, histVars>>

\* An unsubscribe that does not await its timer.
DrainElapsed_NoWait(s) ==
    /\ unsub[s] = "waiting"
    /\ unsub' = [unsub EXCEPT ![s] = "deleting"]
    /\ queue' = [queue EXCEPT ![s] =
                    Append(@, Cmd("DELCONSUMER", 1, <<>>, "", <<>>, FALSE))]
    /\ UNCHANGED <<admVars, storeVars, cfgVars, continueReading, readingInterval, loop,
                   drain, waited, result, removed, held, histVars>>

\* Subscriber.unsubscribe, the wait is over: the first DELCONSUMER is sent.
DrainElapsed(s) ==
    /\ unsub[s] = "waiting"
    /\ waited[s] >= drain[s]
    /\ unsub' = [unsub EXCEPT ![s] = "deleting"]
    /\ queue' = [queue EXCEPT ![s] =
                    Append(@, Cmd("DELCONSUMER", 1, <<>>, "", <<>>, FALSE))]
    /\ UNCHANGED <<admVars, storeVars, cfgVars, continueReading, readingInterval, loop,
                   drain, waited, result, removed, held, histVars>>

\* Subscriber.unsubscribe, the loop over the channels: XGROUP DELCONSUMER, then
\* the next channel or the return.
DelConsumer(s) ==
    /\ HeadIs(s, "DELCONSUMER")
    /\ LET c == Head(queue[s])
           k == Key(s, c.ch)
           ok == groups[k].exists
           last == c.ch = Len(channels[s])
       IN /\ groups' = [groups EXCEPT ![k].consumers = IF ok THEN @ \ {s} ELSE @]
          /\ pel' = [pel EXCEPT ![k] = IF ok THEN XDelConsumerPel(k, s) ELSE @]
          /\ queue' = [queue EXCEPT ![s] = Tail(@) \o
                          (IF ok /\ ~last
                           THEN <<Cmd("DELCONSUMER", c.ch + 1, <<>>, "", <<>>, FALSE)>>
                           ELSE <<>>)]
          /\ unsub' = [unsub EXCEPT ![s] =
                          IF ~ok THEN "failed" ELSE IF last THEN "returned" ELSE @]
          /\ result' = [result EXCEPT ![s] =
                          IF ok /\ last THEN [channels |-> channels[s], result |-> "OK"]
                          ELSE @]
          /\ removed' = [removed EXCEPT ![s] = IF ok THEN @ \cup {k[1]} ELSE @]
    /\ UNCHANGED <<admVars, stream, rejections, nextId, budget, outcome, cfgVars, continueReading,
                   readingInterval, loop, drain, waited, held, histVars>>

\* Time passes: every pending entry is idle for longer (idle times are kept
\* up to the ack timeout, the one value they are compared with), and so does
\* every wait of an unsubscribe.
Tick ==
    /\ \/ \E k \in Keys : \E p \in pel[k] : p.idle < Timeout
       \/ \E s \in Subs : unsub[s] = "waiting" /\ waited[s] < drain[s]
    /\ pel' = [k \in Keys |-> {[p EXCEPT !.idle = Min(@ + 1, Timeout)] : p \in pel[k]}]
    /\ waited' = [s \in Subs |->
                    IF unsub[s] = "waiting" THEN Min(waited[s] + 1, drain[s])
                    ELSE waited[s]]
    /\ UNCHANGED <<admVars, stream, groups, rejections, nextId, budget, outcome, cfgVars, subVars,
                   unsub, drain, result, removed, held, histVars>>

(***************************************************************************)
(* Publisher                                                               *)
(***************************************************************************)

\* XADD channel * fields
XAdd(ch, fields) == [stream EXCEPT ![ch] = Append(@, [id |-> nextId, fields |-> fields])]

\* A publish that does not look at the connection.
Publish_NoCheck(ch, action, data, o) ==
    /\ made["pub"] = "OK"
    /\ nextId <= budget
    /\ stream' = XAdd(ch, <<action, Stringify(data)>>)
    /\ outcome' = [outcome EXCEPT ![nextId] = o]
    /\ nextId' = nextId + 1
    /\ pubRet' = [ch |-> ch, action |-> action, data |-> data, id |-> nextId, err |-> ""]
    /\ UNCHANGED <<redis, now, made, stopRet, adm, groups, pel, rejections, budget,
                   cfgVars, subVars, unsubVars, histVars>>

\* Publisher.publish: without a connection it throws REDIS_CONNECTION; else
\* XADD channel MAXLEN ~ maxLength * action data, and the id is returned.  (The
\* approximate trimming evicts whole nodes of the stream only, which a stream
\* as short as the ones here does not fill.)  o is what the subscribers'
\* callback will do with the message.
Publish(ch, action, data, o) ==
    /\ made["pub"] = "OK"
    /\ IF redis
       THEN /\ nextId <= budget
            /\ stream' = XAdd(ch, <<action, Stringify(data)>>)
            /\ outcome' = [outcome EXCEPT ![nextId] = o]
            /\ nextId' = nextId + 1
            /\ pubRet' = [ch |-> ch, action |-> action, data |-> data,
                          id |-> nextId, err |-> ""]
       ELSE /\ pubRet' = [ch |-> ch, action |-> action, data |-> data,
                          id |-> 0, err |-> "REDIS_CONNECTION"]
            /\ UNCHANGED <<stream, outcome, nextId>>
    /\ UNCHANGED <<redis, now, made, stopRet, adm, groups, pel, rejections, budget, cfgVars, subVars, unsubVars, histVars>>

\* reprocessRejectedMessages, its append: XADD channel * action data 'group' group
Republish(ch, action, data, g, o) ==
    /\ nextId <= budget
    /\ stream' = XAdd(ch, <<action, Stringify(data), "group", g>>)
    /\ outcome' = [outcome EXCEPT ![nextId] = o]
    /\ nextId' = nextId + 1
    /\ UNCHANGED <<admVars, groups, pel, rejections, budget, cfgVars, subVars, unsubVars, histVars>>

(***************************************************************************)
(* redismb: the connection and the rejected messages                       *)
(***************************************************************************)

\* What an async callback that ends without a return gives.
Missing == [undefined |-> TRUE]

IsMissing(m) == Has(m, "undefined")

\* The entries of the stream 'rejections'.
Live == SelectSeq(rejections, LAMBDA r : ~r.del)

\* XRANGE rejections id id
XRangeId(id) == SelectSeq(Live, LAMBDA r : r.id = id)

\* XRANGE rejections from to, with times for ids: the entries whose id has a
\* time part in the range.
XRangeTime(from, to) == SelectSeq(Live, LAMBDA r : from <= r.id[1] /\ r.id[1] <= to)

\* XDEL rejections id
XDel(id) == [j \in DOMAIN rejections |->
                IF rejections[j].id = id THEN [rejections[j] EXCEPT !.del = TRUE]
                ELSE rejections[j]]

\* _readRejectedMessages, the record of one entry.
ParseRejected(r) ==
    [id |-> r.id, action |-> r.fields[1], data |-> ParseData(r.fields[2]),
     group |-> r.fields[3], channel |-> r.fields[4]]

\* _readRejectedMessages({ id, from, to }): from and to are numbers here, and 0
\* is falsy.
ReadRejected(p) ==
    LET records == IF Has(p, "id") THEN XRangeId(p.id)
                   ELSE IF Has(p, "from") /\ p.from # 0 /\ Has(p, "to") /\ p.to # 0
                   THEN XRangeTime(p.from, p.to)
                   ELSE Live
    IN [j \in DOMAIN records |-> ParseRejected(records[j])]

\* _readRejectedMessagesByIds
ReadRejectedMessagesByIds(ids) ==
    [j \in DOMAIN ids |->
        LET found == ReadRejected([id |-> ids[j]])
        IN IF found # <<>> THEN found[1] ELSE Missing]

\* _readRejectedMessagesByTimeRange: new Date(from).getTime(), new Date(to).getTime()
ReadRejectedMessagesByTimeRange(from, to) == ReadRejected([from |-> from, to |-> to])

\* _readAllRejectedMessages
ReadAllRejectedMessages == ReadRejected(<<>>)

\* readRejectedMessages({ ids, from, to, action }): from and to are dates, which
\* are truthy whatever their time.  The action filter reads event.action of
\* every message, and raises a TypeError on one that is undefined.
ReadRejectedMessages(q) ==
    IF ~redis THEN [err |-> "REDIS_CONNECTION", messages |-> <<>>, count |-> 0]
    ELSE LET ms == IF Has(q, "ids") /\ q.ids # <<>>
                   THEN ReadRejectedMessagesByIds(q.ids)
                   ELSE IF Has(q, "from") /\ Has(q, "to")
                   THEN ReadRejectedMessagesByTimeRange(q.from, q.to)
                   ELSE ReadAllRejectedMessages
             filtered == SelectSeq(ms, LAMBDA m : m.action = q.action)
         IN IF ~Has(q, "action") THEN [err |-> "", messages |-> ms, count |-> Len(ms)]
            ELSE IF \E j \in DOMAIN ms : IsMissing(ms[j])
            THEN [err |-> "TypeError", messages |-> <<>>, count |-> 0]
            ELSE [err |-> "", messages |-> filtered, count |-> Len(filtered)]

\* The override in the place of the data.
Merge_Replace(data, override) == override

\* { ...data, ...override }
Merge(data, override) ==
    [key \in DOMAIN data \cup DOMAIN override |->
        IF key \in DOMAIN override THEN override[key] ELSE data[key]]

\* messages?.find(({ id }) => id === message.id)
Find(overrides, id) ==
    LET at == {j \in DOMAIN overrides : overrides[j].id = id}
    IN IF at = {} THEN <<>> ELSE overrides[CHOOSE j \in at : \A i \in at : j <= i]

\* reprocessRejectedMessages, the three assignments to the message: a channel
\* and a group of newMessage are taken when the message has none.
Overridden(message, overrides) ==
    LET newMessage == Find(overrides, message.id)
    IN [id |-> message.id,
        action |-> message.action,
        channel |-> IF message.channel # "" THEN message.channel
                    ELSE IF Has(newMessage, "channel") THEN newMessage.channel
                    ELSE Undefined,
        group |-> IF message.group # "" THEN message.group
                  ELSE IF Has(newMessage, "group") THEN newMessage.group
                  ELSE Undefined,
        data |-> IF Has(newMessage, "data") THEN Merge(message.data, newMessage.data)
                 ELSE message.data]

\* A call is in progress when reprocessRejectedMessages is in its loop.
InLoop == adm.op = "reprocess" /\ adm.pc \in {"xadd", "xdel"}

\* redismb.readRejectedMessages
ReadRejectedCall(q) ==
    /\ ~InLoop
    /\ adm' = [op |-> "read", q |-> q, ret |-> ReadRejectedMessages(q)]
    /\ UNCHANGED <<storeVars, cfgVars, subVars, unsubVars, histVars,
                   redis, now, made, pubRet, stopRet>>

\* A loop that a failure ends.
Handled_Abort(a, succeeded, failed) ==
    [a EXCEPT !.succeeded = succeeded, !.failed = failed, !.i = @ + 1,
              !.pc = IF a.i < Len(a.list) /\ failed = a.failed THEN "xadd" ELSE "returned"]

\* reprocessRejectedMessages after the handling of the message at adm.i, which
\* went to succeeded or to failed.
Handled(a, succeeded, failed) ==
    [a EXCEPT !.succeeded = succeeded, !.failed = failed, !.i = @ + 1,
              !.pc = IF a.i < Len(a.list) THEN "xadd" ELSE "returned"]

\* redismb.reprocessRejectedMessages, to its loop: readRejectedMessages is
\* awaited outside the try.
Reprocess(q, overrides) ==
    /\ ~InLoop
    /\ LET r == ReadRejectedMessages(q)
       IN adm' = [op |-> "reprocess", messages |-> overrides, err |-> r.err,
                  pc |-> IF r.err # "" THEN "thrown"
                         ELSE IF r.messages = <<>> THEN "returned" ELSE "xadd",
                  list |-> r.messages, i |-> 1, cur |-> Missing,
                  succeeded |-> <<>>, failed |-> <<>>]
    /\ UNCHANGED <<storeVars, cfgVars, subVars, unsubVars, histVars,
                   redis, now, made, pubRet, stopRet>>

\* reprocessRejectedMessages, the body of the loop to its XADD: XADD channel *
\* action data 'group' group.  An error (of the assignments to a message that
\* is undefined, of redis that is null, of the store: fail) is caught and the
\* message goes to failed.
ReprocessAdd(fail) ==
    /\ adm.op = "reprocess" /\ adm.pc = "xadd"
    /\ LET message == adm.list[adm.i]
           m == Overridden(message, adm.messages)
       IN IF IsMissing(message)
          THEN /\ adm' = Handled(adm, adm.succeeded,
                                 Append(adm.failed, <<message, "TypeError">>))
               /\ UNCHANGED <<stream, outcome, nextId>>
          ELSE IF ~redis \/ fail
          THEN /\ adm' = Handled(adm, adm.succeeded,
                                 Append(adm.failed,
                                        <<m, IF redis THEN "store" ELSE "TypeError">>))
               /\ UNCHANGED <<stream, outcome, nextId>>
          ELSE /\ nextId <= budget
               /\ stream' = XAdd(m.channel, <<m.action, Stringify(m.data), "group", m.group>>)
               /\ outcome' = [outcome EXCEPT ![nextId] = "resolve"]
               /\ nextId' = nextId + 1
               /\ adm' = [adm EXCEPT !.pc = "xdel", !.cur = m]
    /\ UNCHANGED <<groups, pel, rejections, budget, cfgVars, subVars, unsubVars, histVars,
                   redis, now, made, pubRet, stopRet>>

\* reprocessRejectedMessages, the body of the loop from its XDEL: XDEL
\* rejections id, and the message goes to succeeded.
ReprocessDel(fail) ==
    /\ adm.op = "reprocess" /\ adm.pc = "xdel"
    /\ IF ~redis \/ fail
       THEN /\ adm' = Handled(adm, adm.succeeded,
                              Append(adm.failed,
                                     <<adm.cur, IF redis THEN "store" ELSE "TypeError">>))
            /\ UNCHANGED rejections
       ELSE /\ rejections' = XDel(adm.cur.id)
            /\ adm' = Handled(adm, Append(adm.succeeded, adm.cur), adm.failed)
    /\ UNCHANGED <<stream, groups, pel, nextId, budget, outcome, cfgVars, subVars,
                   unsubVars, histVars, redis, now, made, pubRet, stopRet>>

\* redismb.bootstrap: redis = new Redis(redisUri)
Bootstrap ==
    /\ ~redis
    /\ redis' = TRUE
    /\ UNCHANGED <<storeVars, cfgVars, subVars, unsubVars, histVars,
                   now, made, pubRet, stopRet, adm>>

\* redismb.stop: with a connection, quit and redis = null; with none, nothing.
StopConnection ==
    /\ redis' = FALSE
    /\ stopRet' = IF redis THEN "OK" ELSE Undefined
    /\ UNCHANGED <<storeVars, cfgVars, subVars, unsubVars, histVars,
                   now, made, pubRet, adm>>

\* The store's clock advances.
Clock ==
    /\ now < MaxTime
    /\ now' = now + 1
    /\ UNCHANGED <<storeVars, cfgVars, subVars, unsubVars, histVars,
                   redis, made, pubRet, stopRet, adm>>

(***************************************************************************)
(* The specifications                                                      *)
(***************************************************************************)

\* No call of readRejectedMessages or reprocessRejectedMessages was made.
NoCall == [op |-> "none"]

Actions == {"act"}
\* Message data: objects of JSON values, by key.
Datas == {[k |-> "v", n |-> "u"]}
Tags == {"g", "h"}

\* The state after the constructors of the Subscribers in S (and of the
\* Publisher, if "pub" is in S), all of group g on the channels C: the first
\* XGROUP CREATE of #createGroup is sent.  The
\* Subscribers in I read at intervals, with at most v cycles at a time, and the
\* producers append n messages.
Built(S, I, C, n, v) ==
    /\ stream = [ch \in Channels |-> <<>>]
    /\ groups = [k \in Keys |-> [exists |-> FALSE, last |-> 0, consumers |-> {}]]
    /\ pel = [k \in Keys |-> {}]
    /\ rejections = <<>>
    /\ nextId = 1
    /\ budget = n
    /\ outcome = [id \in Ids |-> "resolve"]
    /\ channels = [s \in Subs |-> C]
    /\ group = [s \in Subs |-> "g"]
    /\ \E r \in 0..MaxRetries : retries = [s \in Subs |-> r]
    /\ messages = [s \in Subs |-> n]
    /\ interval = [s \in Subs |-> s \in I]
    /\ overlap = v
    /\ continueReading = [s \in Subs |-> TRUE]
    /\ readingInterval = [s \in Subs |-> FALSE]
    /\ loop = [s \in Subs |-> IF s \in S THEN "new" ELSE "absent"]
    /\ queue = [s \in Subs |-> IF s \in S
                               THEN <<Cmd("XGROUP", 1, <<>>, "", <<>>, FALSE)>>
                               ELSE <<>>]
    /\ unsub = [s \in Subs |-> "none"]
    /\ drain = [s \in Subs |-> 0]
    /\ waited = [s \in Subs |-> 0]
    /\ result = [s \in Subs |-> [channels |-> <<>>, result |-> ""]]
    /\ removed = [s \in Subs |-> {}]
    /\ held = [s \in Subs |-> {}]
    /\ att = [id \in Ids |-> <<>>]
    /\ statusLog = {}
    /\ maxRetries = [id \in Ids |-> 0]
    /\ now = 1
    /\ made = [x \in Subs \cup {"pub"} |-> IF x \in S THEN "OK" ELSE ""]
    /\ pubRet = <<>>
    /\ stopRet = ""
    /\ adm = NoCall

\* The same, in a process that has its connection.
Constructed(S, I, C, n, v) == Built(S, I, C, n, v) /\ redis = TRUE

Produce ==
    \/ \E a \in Actions, d \in Datas, o \in Outcomes : Publish("c1", a, d, o)
    \/ \E a \in Actions, d \in Datas, g \in Tags : Republish("c1", a, d, g, "resolve")

Consume ==
    \/ \E s \in Subs : CreateGroup(s)
    \/ \E s \in Subs : Subscribe(s)
    \/ \E s \in Subs : ReadMessages(s)
    \/ \E s \in Subs : ReadPendingMessages(s)
    \/ \E s \in Subs : ClaimMessages(s)
    \/ \E s \in Subs : AckMessages(s)
    \/ \E s \in Subs : RejectMessages(s)
    \/ \E s \in Subs, id \in Ids : \E n \in DOMAIN att[id] : CallbackResolves(s, id, n)
    \/ Tick

Stop ==
    \/ \E s \in Subs : IntervalRead(s)
    \/ \E s \in Subs, d \in 0..MaxDrain : Unsubscribe(s, d)
    \/ \E s \in Subs : DrainElapsed(s)
    \/ \E s \in Subs : DelConsumer(s)

\* Two Subscribers of one group that read continually and are not stopped.
Init == Constructed(Subs \cup {"pub"}, {}, <<"c1">>, MaxMsgs, MaxOverlap)

Next == Produce \/ Consume

Spec == Init /\ [][Next]_vars

\* The store serves every connection, and time passes.
Exec(s) ==
    \/ CreateGroup(s)
    \/ ReadMessages(s)
    \/ ReadPendingMessages(s)
    \/ ClaimMessages(s)
    \/ AckMessages(s)
    \/ RejectMessages(s)

LiveSpec == Spec /\ WF_vars(Tick) /\ \A s \in Subs : WF_vars(Exec(s))

\* One Subscriber, reading continually or at intervals, that is stopped at
\* some time.
InitStop ==
    \E I \in SUBSET {"s1"}, C \in {<<"c1">>, <<"c1", "c2">>} :
        Constructed({"s1", "pub"}, I, C, MaxMsgs, MaxOverlap)

NextStop == Produce \/ Consume \/ Stop

SpecStop == InitStop /\ [][NextStop]_vars

\* One Subscriber, reading continually or at intervals, and batches of
\* several messages.
InitBatch ==
    \E I \in SUBSET {"s1"} : Constructed({"s1", "pub"}, I, <<"c1">>, MaxBatch, MaxOverlap)

NextBatch == Produce \/ Consume \/ \E s \in Subs : IntervalRead(s)

SpecBatch == InitBatch /\ [][NextBatch]_vars

\* An id of no entry of the stream 'rejections'.
NoId == <<0, 0>>

\* The ids a caller names: those of the entries written so far, and NoId.
IdPool == {rejections[j].id : j \in DOMAIN rejections} \cup {NoId}

IdLists == {<<a>> : a \in IdPool} \cup {<<a, NoId>> : a \in IdPool \ {NoId}}

Times == 0..MaxTime

Selections ==
    {<<>>} \cup {[ids |-> l] : l \in IdLists}
           \cup {[from |-> f, to |-> u] : f \in Times, u \in Times}

\* The parameters of readRejectedMessages.
Queries == Selections \cup {[ids |-> l, action |-> a] : l \in IdLists, a \in Actions}
                      \cup {[action |-> a] : a \in Actions \cup {"other"}}

\* The parameter messages of reprocessRejectedMessages: nothing, or one message
\* with a channel and a group, or with data.
Overrides ==
    {<<>>} \cup {<<[id |-> a, channel |-> "c2", group |-> "h"]>> : a \in IdPool \ {NoId}}
           \cup {<<[id |-> a, data |-> [k |-> "w", m |-> "x"]]>> : a \in IdPool \ {NoId}}

\* Messages are published for which the callback fails.
Rejected == \E a \in Actions, d \in Datas : Publish("c1", a, d, "reject")

\* The steps of the Subscribers when no callback's promise is fulfilled.
Cycle ==
    \/ \E s \in Subs : CreateGroup(s)
    \/ \E s \in Subs : Subscribe(s)
    \/ \E s \in Subs : ReadMessages(s)
    \/ \E s \in Subs : ReadPendingMessages(s)
    \/ \E s \in Subs : ClaimMessages(s)
    \/ \E s \in Subs : AckMessages(s)
    \/ \E s \in Subs : RejectMessages(s)
    \/ Tick

\* One Subscriber whose callback fails, and a process that reads the rejected
\* messages as time passes.
InitRead == Constructed({"s1", "pub"}, {}, <<"c1">>, MaxMsgs + MaxBatch, MaxOverlap)

NextRead ==
    \/ Rejected
    \/ Cycle
    \/ Clock
    \/ \E q \in Queries : ReadRejectedCall(q)

SpecRead == InitRead /\ [][NextRead]_vars

\* One Subscriber with no retry whose callback fails, and a process that
\* reprocesses the rejected messages.
InitDlq ==
    /\ Constructed({"s1", "pub"}, {}, <<"c1">>, MaxMsgs + MaxBatch, MaxOverlap)
    /\ retries["s1"] = 0

NextDlq ==
    \/ Rejected
    \/ Consume
    \/ \E q \in {<<>>} \cup {[ids |-> l] : l \in IdLists}, o \in Overrides : Reprocess(q, o)
    \/ \E fail \in BOOLEAN : ReprocessAdd(fail)
    \/ \E fail \in BOOLEAN : ReprocessDel(fail)

SpecDlq == InitDlq /\ [][NextDlq]_vars

\* The parameters of the constructors.
SubscriberOptions ==
    {<<>>, [group |-> "g"]}
        \cup {[channels |-> C] : C \in {<<>>, <<"c1">>}}
        \cup {[channels |-> C, group |-> "g"] : C \in {<<>>, <<"c1">>}}

PublisherOptions == {<<>>, [channel |-> "c1"]}

\* Subscribers and a Publisher that are constructed with any parameters.
InitNew == Constructed({}, {}, <<"c1">>, MaxMsgs, MaxOverlap)

NextNew ==
    \/ \E s \in Subs, o \in SubscriberOptions : NewSubscriber(s, o)
    \/ \E o \in PublisherOptions : NewPublisher(o)
    \/ Produce
    \/ Consume

SpecNew == InitNew /\ [][NextNew]_vars

\* One Subscriber whose callback fails, and a process that publishes and
\* handles the rejected messages, with a connection that it stops and sets up
\* again.
InitConn == Constructed({"s1", "pub"}, {}, <<"c1">>, MaxBatch, MaxOverlap)

NextConn ==
    \/ Rejected
    \/ Consume
    \/ Bootstrap
    \/ StopConnection
    \/ ReadRejectedCall(<<>>)
    \/ Reprocess(<<>>, <<>>)
    \/ ReprocessAdd(FALSE)
    \/ ReprocessDel(FALSE)

SpecConn == InitConn /\ [][NextConn]_vars

\* A process that constructs its Subscribers before or after bootstrap, and
\* publishes and subscribes once it has its connection; the store may refuse
\* the creation of a group.
InitCtor == Built({}, {}, <<"c1">>, MaxMsgs, MaxOverlap) /\ redis = FALSE

NextCtor ==
    \/ \E s \in Subs : NewSubscriber(s, [channels |-> <<"c1">>, group |-> "g"])
    \/ \E o \in PublisherOptions : NewPublisher(o)
    \/ Bootstrap
    \/ redis /\ \E s \in Subs : CreateGroupFails(s)
    \/ redis /\ Produce
    \/ redis /\ Consume

SpecCtor == InitCtor /\ [][NextCtor]_vars

\* One Subscriber that reads at intervals shorter than a cycle may take: the
\* timer fires again while a cycle is in progress.
InitOverlap == Constructed({"s1", "pub"}, {"s1"}, <<"c1">>, MaxMsgs, MaxOverlap + 1)

NextOverlap == Produce \/ Consume \/ \E s \in Subs : IntervalRead(s)

SpecOverlap == InitOverlap /\ [][NextOverlap]_vars

\* Two Subscribers of one group, the first of which is stopped while the
\* second goes on.
InitLeave == Constructed(Subs \cup {"pub"}, {}, <<"c1">>, MaxMsgs, MaxOverlap)

NextLeave ==
    \/ Produce
    \/ Consume
    \/ \E d \in 0..MaxDrain : Unsubscribe("s1", d)
    \/ DrainElapsed("s1")
    \/ DelConsumer("s1")

SpecLeave == InitLeave /\ [][NextLeave]_vars

\* One Subscriber whose error callback may raise when a message is rejected.
InitErr == Constructed({"s1", "pub"}, {}, <<"c1">>, MaxMsgs, MaxOverlap)

NextErr == Produce \/ Consume \/ \E s \in Subs : AckMessagesErrorRaises(s)

SpecErr == InitErr /\ [][NextErr]_vars

\* The store serves the connection, and time passes.
LiveErr ==
    /\ SpecErr
    /\ WF_vars(Tick)
    /\ \A s \in Subs : WF_vars(Exec(s) \/ AckMessagesErrorRaises(s))

(***************************************************************************)
(* The claims                                                              *)
(***************************************************************************)

Published(id) == id < nextId

\* The message with this id, as a Subscriber parses it.
Message(id) == ParseMessage("s1", Entry("c1", id))

\* The message carries a group tag that is not the Subscriber's group.
Foreign(s, id) == Published(id) /\ ~ShouldReceiveMessage(s, Message(id))

\* The callback fails for the message at every invocation.
Failing(id) == Published(id) /\ outcome[id] # "resolve"

Pending(id) == \E k \in Keys : \E p \in pel[k] : p.id = id

Logged(id, status) == \E l \in statusLog : l.id = id /\ l.status = status

DeadLetters(id) == {j \in DOMAIN rejections : rejections[j].src = id}

\* C1: a Subscriber never invokes the processing callback for a message whose
\* group tag is present and differs from the Subscriber's group, on the read
\* path or on the reclaim path.
C1_NoCallbackForOtherGroup ==
    \A id \in Ids : \A n \in DOMAIN att[id] : ~Foreign(att[id][n].sub, id)

C3_AtMostRetriesReclaims ==
    \A id \in Ids : \A s \in Subs :
        Failing(id) /\ loop[s] # "absent" => Len(att[id]) <= retries[s] + 1

\* C4: no message is rejected twice, and no message has a second dead-letter
\* record.
C4_DeadLetteredOnce ==
    \A id \in Ids : Cardinality(DeadLetters(id)) <= 1 /\ maxRetries[id] <= 1

\* C6: with retries = 0 and a callback that always fails, the message is
\* dead-lettered after exactly one invocation of the callback, the one of the
\* first delivery, and is never reclaimed to be processed again.
C6_NoRetryRejectsAtOnce ==
    \A id \in Ids :
        (Failing(id) /\ \A s \in Subs : retries[s] = 0)
        => /\ \A n \in DOMAIN att[id] : att[id][n].via = "read"
           /\ Len(att[id]) <= 1
           /\ (DeadLetters(id) # {} \/ Logged(id, "REJECTED") => Len(att[id]) = 1)

\* C7: when the callback fails for a message, by a rejected promise or by
\* raising, the callbacks of the other messages of the batch are still invoked
\* (every message delivered to a Subscriber that is to receive it has had its
\* callback invoked) and the Subscriber goes on reading.
C7_FailuresIsolated ==
    /\ \A s \in Subs : loop[s] # "crashed"
    /\ \A k \in Keys : \A p \in pel[k] :
           ~Foreign(p.owner, p.id) => att[p.id] # <<>>

\* C8: for every invocation of the callback that fails, logEventError is
\* invoked exactly once with (error, channel, message), and that invocation
\* acknowledges nothing.
C8_ErrorCallbackPerFailure ==
    \A id \in Ids : \A n \in DOMAIN att[id] :
        att[id][n].st \in {"rejected", "threw"}
        => att[id][n].errs = 1 /\ att[id][n].errsBare = 0

\* C5: if a message's callback fails at every attempt and some consumer of the
\* group keeps running its cycles, the message is eventually acknowledged as
\* REJECTED, not pending, and in the dead-letter stream.
C5_EventuallyDeadLettered ==
    \A id \in Ids :
        (\E s \in Subs : <>[](loop[s] = "running"))
        => ((Failing(id) /\ att[id] # <<>>)
               ~> (~Pending(id) /\ Logged(id, "REJECTED") /\ DeadLetters(id) # {}))

C5_Witness ==
    \E id \in Ids :
        /\ Failing(id)
        /\ att[id] # <<>>
        /\ DeadLetters(id) # {}
        /\ \E n \in DOMAIN att[id] : att[id][n].via = "claim"
        /\ \E s \in Subs : loop[s] = "running"

HasCmd(q, c) == \E j \in DOMAIN q : q[j].cmd = c

Reads(q) == Len(SelectSeq(q, LAMBDA c : c.cmd = "XREADGROUP"))

\* C9: unsubscribe clears the continue flag and the interval timer before it
\* waits, sends DELCONSUMER only when the drain delay has elapsed, on every
\* channel of the Subscriber, and returns the channels and 'OK'.
C9_UnsubscribeDrains ==
    \A s \in Subs :
        /\ unsub[s] # "none" => ~continueReading[s] /\ ~readingInterval[s]
        /\ (HasCmd(queue[s], "DELCONSUMER") \/ removed[s] # {} \/ unsub[s] \notin {"none", "waiting"})
           => unsub[s] # "none" /\ waited[s] >= drain[s]
        /\ unsub[s] # "failed"
        /\ unsub[s] = "returned"
           => /\ result[s] = [channels |-> channels[s], result |-> "OK"]
              /\ removed[s] = Range(channels[s])
              /\ ~HasCmd(queue[s], "DELCONSUMER")

C9_Witness ==
    \E s \in Subs :
        /\ unsub[s] = "returned"
        /\ drain[s] = MaxDrain
        /\ Len(channels[s]) = 2
        /\ interval[s]

\* C10: once unsubscribe is called the Subscriber starts no new cycle, the
\* cycle in flight is not cut short, and the continual loop ends when that
\* cycle has ended.
C10_CooperativeCancellation ==
    [][\A s \in Subs :
          unsub[s] # "none"
          => /\ Reads(queue'[s]) <= Reads(queue[s])
             /\ loop'[s] = "crashed" => loop[s] = "crashed"
             /\ loop'[s] = "ended" => ~\E j \in DOMAIN queue'[s] : IsCycleCmd(queue'[s][j])
      ]_vars

\* C10 with no callback that raises and one channel.
C10_ButForRaise ==
    [][\A s \in Subs :
          (unsub[s] # "none" /\ Len(channels[s]) = 1 /\ \A id \in Ids : outcome[id] # "throw")
          => /\ Reads(queue'[s]) <= Reads(queue[s])
             /\ loop'[s] = "crashed" => loop[s] = "crashed"
             /\ loop'[s] = "ended" => ~\E j \in DOMAIN queue'[s] : IsCycleCmd(queue'[s][j])
      ]_vars

\* reprocessRejectedMessages appends in this step: its XADD is executed.
Appends == adm.op = "reprocess" /\ adm.pc = "xadd" /\ adm'.pc = "xdel"

\* The entry the step appended to the channel ch.
Appended(ch) == stream'[ch][Len(stream'[ch])]

\* The record reprocessRejectedMessages is handling, and the message of the
\* parameter messages for it (<<>> if there is none).
Handling == adm.list[adm.i]

Override == Find(adm.messages, Handling.id)

\* C11: when reprocess is given a channel or a group for a record, the record
\* is republished to that channel and tagged with that group, also when the
\* record carries a channel and a group of its own.
C11_OverrideDecidesDestination ==
    [][Appends =>
          /\ Has(Override, "channel")
             => /\ Len(stream'[Override.channel]) = Len(stream[Override.channel]) + 1
                /\ Appended(Override.channel).id = nextId
          /\ Has(Override, "group")
             => ParseMessage("s1", Appended(adm'.cur.channel)).group = Override.group
      ]_vars

\* C12: reprocess with no message given appends one message to the channel of
\* the record, tagged with its group, with the action and the data of the
\* record; it deletes the record, and it returns the record in succeeded and
\* nothing in failed (no command fails at the store).
C12_RoundTrip ==
    [][/\ (Appends /\ adm.messages = <<>>)
          => /\ stream' = [stream EXCEPT ![Handling.channel] =
                              Append(@, Appended(Handling.channel))]
             /\ Appended(Handling.channel).id = nextId
             /\ LET m == ParseMessage("s1", Appended(Handling.channel))
                IN /\ m.action = Handling.action
                   /\ m.data = Handling.data
                   /\ m.group = Handling.group
       /\ (adm.op = "reprocess" /\ adm.pc = "xdel" /\ adm'.succeeded # adm.succeeded)
          => /\ \A j \in DOMAIN rejections' :
                   rejections'[j].del <=> (rejections[j].del \/ rejections[j].id = adm.cur.id)
             /\ adm'.succeeded = Append(adm.succeeded, adm.cur)
             /\ adm'.failed = adm.failed
       /\ (adm'.op = "reprocess" /\ adm'.pc = "returned" /\ adm'.messages = <<>>
             /\ (\E j \in DOMAIN adm'.list : ~IsMissing(adm'.list[j]))
             /\ (\A x \in DOMAIN adm'.failed : adm'.failed[x][2] # "store"))
          => /\ adm'.failed = <<>>
             /\ Len(adm'.succeeded) = Len(adm'.list)
             /\ \A j \in DOMAIN adm'.list : \A r \in Range(rejections') :
                   r.id = adm'.list[j].id => r.del
      ]_vars

\* C12 for a call that names no id that is missing from the stream.
C12_ButForMissing ==
    [][(adm'.op = "reprocess" /\ adm'.pc = "returned" /\ adm'.messages = <<>>
          /\ (\A j \in DOMAIN adm'.list : ~IsMissing(adm'.list[j]))
          /\ (\A x \in DOMAIN adm'.failed : adm'.failed[x][2] # "store"))
       => /\ adm'.failed = <<>>
          /\ Len(adm'.succeeded) = Len(adm'.list)
          /\ \A j \in DOMAIN adm'.list : \A r \in Range(rejections') :
                   r.id = adm'.list[j].id => r.del
      ]_vars

\* C13: when reprocess is given data for a record, the data republished are
\* the record's data merged with them: the keys given have the values given,
\* the other keys of the record keep their values, and there is no other key.
C13_DataOverrideMerges ==
    [][(Appends /\ Has(Override, "data"))
       => LET d == ParseMessage("s1", Appended(adm'.cur.channel)).data
          IN /\ DOMAIN d = DOMAIN Handling.data \cup DOMAIN Override.data
             /\ \A key \in DOMAIN Override.data : d[key] = Override.data[key]
             /\ \A key \in DOMAIN Handling.data \ DOMAIN Override.data :
                   d[key] = Handling.data[key]
      ]_vars

C13_Witness ==
    /\ adm.op = "reprocess"
    /\ adm.succeeded # <<>>
    /\ Has(Find(adm.messages, adm.succeeded[1].id), "data")
    /\ \E e \in Range(stream["c1"]) :
          Len(e.fields) = 4 /\ ParseData(e.fields[2]) = [k |-> "w", m |-> "x", n |-> "u"]

\* The places of the record with this id in a list of records.
Places(list, id) == {j \in DOMAIN list : ~IsMissing(list[j]) /\ list[j].id = id}

\* C14: a command that fails at the store for one record puts the record and
\* the error's message in failed, and the loop goes on with the next record;
\* when reprocess returns, every record it read is either in succeeded or in
\* failed, and in one of them only.
C14_RecordsIndependent ==
    [][/\ (adm.op = "reprocess" /\ adm.pc \in {"xadd", "xdel"}
             /\ adm'.failed # adm.failed)
          => /\ Len(adm'.failed) = Len(adm.failed) + 1
             /\ IsMissing(Handling) \/ adm'.failed[Len(adm'.failed)][1].id = Handling.id
             /\ adm'.i = adm.i + 1
             /\ adm'.pc = IF adm.i < Len(adm.list) THEN "xadd" ELSE "returned"
       /\ (adm'.op = "reprocess" /\ adm'.pc = "returned")
          => \A j \in DOMAIN adm'.list :
                ~IsMissing(adm'.list[j])
                => Cardinality(Places(adm'.succeeded, adm'.list[j].id))
                   + Cardinality(Places([x \in DOMAIN adm'.failed |-> adm'.failed[x][1]],
                                        adm'.list[j].id)) = 1
      ]_vars

C14_Witness ==
    /\ adm.op = "reprocess"
    /\ adm.pc = "returned"
    /\ Len(adm.list) = 2
    /\ Len(adm.failed) = 1
    /\ adm.failed[1][2] = "store"
    /\ adm.failed[1][1].id = adm.list[1].id
    /\ Len(adm.succeeded) = 1
    /\ adm.succeeded[1].id = adm.list[2].id

\* readRejectedMessages returns in this step.
ReadReturns(q) == adm' # adm /\ adm'.op = "read" /\ adm'.q = q

\* The records of the stream 'rejections', as readRejectedMessages gives them.
Records == [j \in DOMAIN Live |-> ParseRejected(Live[j])]

\* C15: readRejectedMessages with a list of ids returns the records whose id
\* is in the list (and whose action is the one given, if one is given) and
\* nothing else, and count is the number of these records.
C15_ReadByIds ==
    [][\A q \in Queries :
          (ReadReturns(q) /\ Has(q, "ids"))
          => LET want == SelectSeq(Records, LAMBDA m :
                             /\ m.id \in Range(q.ids)
                             /\ Has(q, "action") => m.action = q.action)
                 got == adm'.ret
             IN /\ got.err = ""
                /\ \A j \in DOMAIN got.messages :
                      ~IsMissing(got.messages[j]) /\ got.messages[j] \in Range(want)
                /\ \A m \in Range(want) : m \in Range(got.messages)
                /\ got.count = Len(want)
      ]_vars

\* C16: readRejectedMessages with a time range and no list of ids returns the
\* records whose id has a time part between from and to, both included, for
\* every from and to.
C16_ReadByTimeRange ==
    [][\A q \in Queries :
          (ReadReturns(q) /\ ~Has(q, "ids") /\ Has(q, "from") /\ Has(q, "to"))
          => /\ adm'.ret.err = ""
             /\ adm'.ret.messages =
                   SelectSeq(Records, LAMBDA m : q.from <= m.id[1] /\ m.id[1] <= q.to)
      ]_vars

\* The callback invocations made for the message of the last publish got the
\* id that publish returned, its channel, its action and its data.
PublishedIsDelivered ==
    (pubRet # <<>> /\ pubRet.err = "")
    => \A n \in DOMAIN att[pubRet.id] :
          LET m == CallbackMessage(att[pubRet.id][n].sub, att[pubRet.id][n].ch, pubRet.id)
          IN /\ m.id = pubRet.id
             /\ m.channel = pubRet.ch
             /\ m.action = pubRet.action
             /\ m.data = pubRet.data

\* C17: publish appends one entry [action, serialized data] to its channel and
\* returns the id of the entry; a group that is created has every entry of the
\* stream to read, those published before it too; and a Subscriber's callback
\* gets the message with the same id, channel, action and data.
C17_PublishedIsDelivered ==
    [][/\ (pubRet' # pubRet /\ pubRet'.err = "")
          => stream' = [stream EXCEPT ![pubRet'.ch] =
                           Append(@, [id |-> pubRet'.id,
                                      fields |-> <<pubRet'.action, Stringify(pubRet'.data)>>])]
       /\ \A key \in Keys :
             (~groups[key].exists /\ groups'[key].exists)
             => \A j \in DOMAIN stream[key[1]] : stream[key[1]][j].id > groups'[key].last
       /\ PublishedIsDelivered'
      ]_vars

C17_Witness ==
    /\ pubRet # <<>>
    /\ pubRet.err = ""
    /\ att[pubRet.id] # <<>>
    /\ att[pubRet.id][1].st = "resolved"

\* C18: while there is no connection (after stop, before another bootstrap),
\* publish, readRejectedMessages and reprocessRejectedMessages fail with
\* REDIS_CONNECTION, nothing is appended to a channel and no rejected message
\* is deleted; and stop does nothing and returns nothing.
C18_NoConnection ==
    [][~redis =>
          /\ stream' = stream
          /\ \A j \in DOMAIN rejections : rejections'[j].del = rejections[j].del
          /\ pubRet' # pubRet => pubRet'.err = "REDIS_CONNECTION"
          /\ (adm' # adm /\ ~InLoop)
             => /\ adm'.op = "read" => adm'.ret.err = "REDIS_CONNECTION"
                /\ adm'.op = "reprocess"
                   => adm'.pc = "thrown" /\ adm'.err = "REDIS_CONNECTION"
          /\ stopRet' # stopRet => stopRet' = Undefined /\ ~redis'
      ]_vars

C18_Witness ==
    /\ ~redis
    /\ stopRet = Undefined
    /\ pubRet # <<>>
    /\ pubRet.err = "REDIS_CONNECTION"
    /\ adm.op = "reprocess"
    /\ adm.pc = "thrown"
    /\ Live # <<>>

\* Nothing exists for a constructor that threw.
NothingCreated ==
    /\ \A s \in Subs :
          made[s] = "MISSED_VALUE"
          => /\ queue[s] = <<>>
             /\ loop[s] = "absent"
             /\ \A key \in Keys : s \notin groups[key].consumers
    /\ (\A s \in Subs : made[s] # "OK") => \A key \in Keys : ~groups[key].exists

\* C19: a Subscriber constructed without channels or without group, and a
\* Publisher constructed without channel, throw MISSED_VALUE, and nothing is
\* created: no command is sent, no group comes into existence.
C19_MissedValue ==
    [][/\ \A s \in Subs, o \in SubscriberOptions :
             (NewSubscriber(s, o) /\ (~Has(o, "channels") \/ ~Has(o, "group")))
             => made'[s] = "MISSED_VALUE" /\ UNCHANGED <<storeVars, subVars>>
       /\ \A o \in PublisherOptions :
             (NewPublisher(o) /\ ~Has(o, "channel"))
             => made'["pub"] = "MISSED_VALUE" /\ UNCHANGED <<storeVars, subVars>>
       /\ NothingCreated'
      ]_vars

C19_Witness ==
    /\ made["s1"] = "MISSED_VALUE"
    /\ made["pub"] = "MISSED_VALUE"
    /\ made["s2"] = "OK"
    /\ \E key \in Keys : groups[key].exists

\* C20: no Subscriber is constructed with an empty list of channels, and no
\* read is sent that names no stream.
C20_ChannelsNotEmpty ==
    \A s \in Subs :
        /\ made[s] = "OK" => channels[s] # <<>>
        /\ HeadIs(s, "XREADGROUP") => channels[s] # <<>>

\* The callback invocations made for a message on the new-message path.
FirstDeliveries(id) == {n \in DOMAIN att[id] : att[id][n].via = "read"}

\* No message was delivered as new twice in its group.
DeliveredAsNewOnce == \A id \in Ids : Cardinality(FirstDeliveries(id)) <= 1

\* C21: the creation of a group that exists raises nothing (the Subscriber's
\* loop and commands go on) and leaves the group's cursor and its pending
\* entries as they were, so no entry delivered to the group is delivered again
\* as new.
C21_GroupCreationIdempotent ==
    [][/\ \A s \in Subs :
             (CreateGroup(s) /\ groups[Key(s, Head(queue[s]).ch)].exists)
             => /\ groups' = groups
                /\ pel' = pel
                /\ att' = att
                /\ loop'[s] = loop[s]
                /\ Len(queue'[s]) >= Len(queue[s]) - 1
       /\ DeliveredAsNewOnce'
      ]_vars

C21_Witness ==
    /\ \E l \in statusLog : l.status = "BUSYGROUP" /\ l.id > 0
    /\ \E id \in Ids : FirstDeliveries(id) # {}
    /\ \A s \in Subs : loop[s] = "running"

\* C22: an error of the construction (no connection, a group creation that
\* fails with another error than BUSYGROUP) is raised by the constructor and
\* leaves no constructed Subscriber: a Subscriber that is constructed has its
\* groups, or is creating them.
C22_ConstructionErrorsSurface ==
    \A s \in Subs :
        made[s] = "OK" => (HasCmd(queue[s], "XGROUP") \/ GroupsExist(s))

\* The record of 'rejections' carries the action and the serialized data of
\* the message it was written for, the group of the Subscriber that rejected
\* it and the channel the message is in, and readRejectedMessages gives these
\* four values for it.
CarriesOrigin(r) ==
    /\ r.fields[4] \in Channels
    /\ \E e \in Range(stream[r.fields[4]]) :
          /\ e.id = r.src
          /\ r.fields[1] = e.fields[1]
          /\ r.fields[2] = e.fields[2]
          /\ ParseRejected(r).action = e.fields[1]
          /\ ParseRejected(r).data = ParseData(e.fields[2])
    /\ r.fields[3] = group[r.by]
    /\ ParseRejected(r).group = group[r.by]
    /\ ParseRejected(r).channel = r.fields[4]

\* The XADD to 'rejections' for the message is sent and not executed yet.
DeadLettering(id) ==
    \E s \in Subs : \E j \in DOMAIN queue[s] :
        queue[s][j].cmd = "XADD" /\ queue[s][j].ids = <<id>>

\* C23: every rejected message gets a record in the dead-letter stream that
\* carries its action, its serialized data, the group that rejected it and
\* its channel, and the error callback gets MAX_RETRIES for it exactly once.
C23_RejectedIsDeadLettered ==
    /\ \A j \in DOMAIN rejections : CarriesOrigin(rejections[j])
    /\ \A id \in Ids :
          Logged(id, "REJECTED")
          => /\ DeadLetters(id) # {} \/ DeadLettering(id)
             /\ maxRetries[id] = 1

\* C23 but for the number of the calls of the error callback.
C23_ButForRace ==
    /\ \A j \in DOMAIN rejections : CarriesOrigin(rejections[j])
    /\ \A id \in Ids :
          Logged(id, "REJECTED")
          => /\ DeadLetters(id) # {} \/ DeadLettering(id)
             /\ maxRetries[id] >= 1

\* The pending entry of the message in a group, before the step, was idle for
\* the ack timeout, and after the step it is s's and its idle time is 0.
Obtains(s, key, id) ==
    /\ \E p \in pel[key] : p.id = id /\ p.idle >= Timeout
    /\ \E q \in pel'[key] : q.id = id /\ q.owner = s /\ q.idle = 0

\* C24: a pending entry changes its owner, and is delivered once more, only
\* in a claim that finds it idle for the ack timeout, and the claim sets its
\* idle time to 0, so that a second claim for the same expiry gets nothing; a
\* message has one pending entry in a group at most; and a Subscriber invokes
\* the callback for a pending message, or rejects it, only when its claim
\* obtained the entry.
C24_AtMostOneOwner ==
    [][/\ \A key \in Keys :
             /\ \A p \in pel[key] : \A q \in pel'[key] :
                   (q.id = p.id /\ (q.owner # p.owner \/ q.cnt # p.cnt))
                   => /\ p.idle >= Timeout
                      /\ q.idle = 0
                      /\ q.cnt = p.cnt + 1
             /\ \A p \in pel'[key] : \A q \in pel'[key] : p.id = q.id => p = q
       /\ \A id \in Ids : \A n \in DOMAIN att'[id] :
             (n \notin DOMAIN att[id] /\ att'[id][n].via = "claim")
             => Obtains(att'[id][n].sub, Key(att'[id][n].sub, att'[id][n].ch), id)
       /\ \A s \in Subs : \A j \in DOMAIN queue'[s] :
             (/\ queue'[s][j].cmd = "XACK"
              /\ queue'[s][j].arg = "REJECTED"
              /\ queue'[s][j] \notin Range(queue[s]))
             => \A id \in Range(queue'[s][j].ids) : Obtains(s, Key(s, queue'[s][j].ch), id)
      ]_vars

C24_Witness ==
    \E key \in Keys : \E p \in pel[key] : \E s \in Subs :
        /\ p.cnt >= 2
        /\ p.idle = 0
        /\ s # p.owner
        /\ \E n \in DOMAIN att[p.id] : att[p.id][n].via = "claim" /\ att[p.id][n].sub = p.owner
        /\ HeadIs(s, "XCLAIM")
        /\ p.id \in Range(Head(queue[s]).ids)

\* The message the record was written for is pending in the group that
\* rejected it.
StillPending(r) == \E p \in pel[<<r.fields[4], r.fields[3]>>] : p.id = r.src

\* C25: the acknowledgment of a rejected message precedes its append to the
\* dead-letter stream: the append is sent when the message is acknowledged as
\* REJECTED, and no message that has a record in the dead-letter stream is
\* pending in the group that rejected it.
C25_AckBeforeDeadLetter ==
    /\ \A j \in DOMAIN rejections :
          ~StillPending(rejections[j]) /\ Logged(rejections[j].src, "REJECTED")
    /\ \A id \in Ids :
          DeadLettering(id) => Logged(id, "REJECTED") /\ ~Pending(id)

C25_Witness ==
    \E j \in DOMAIN rejections :
        /\ \E n \in DOMAIN att[rejections[j].src] : att[rejections[j].src][n].via = "claim"
        /\ \E s \in Subs : s # rejections[j].by /\ loop[s] = "running"

\* C26: when unsubscribe deletes the consumer from the group of a channel, no
\* message that was pending for this consumer when unsubscribe was called (it
\* had read or claimed it) is still pending for it there.
C26_DrainLeavesNothingPending ==
    [][\A s \in Subs :
          (HeadIs(s, "DELCONSUMER") /\ removed'[s] # removed[s])
          => \A p \in pel[Key(s, Head(queue[s]).ch)] :
                p.owner = s => <<Key(s, Head(queue[s]).ch), p.id>> \notin held[s]
      ]_vars

\* C27: at most one cycle (the read of the new messages, then the sweep of the
\* pending ones) of a Subscriber is in progress at any time, when it reads
\* continually and when it reads at intervals.
C27_OneCycleAtATime == \A s \in Subs : Cycles(s) <= 1

\* The messages of channel i for which s invoked the callback on the
\* new-message path.
ReadBy(s, i) ==
    {id \in Ids : \E n \in DOMAIN att[id] :
        att[id][n].sub = s /\ att[id][n].ch = i /\ att[id][n].via = "read"}

\* C28: on the new-message path a Subscriber invokes the callback for the
\* messages of a channel in increasing order of their ids: the messages of a
\* reply are taken in the order of the reply, which is that of the stream, and
\* every message of a later reply has a greater id than those of the replies
\* before it.
C28_FirstDeliveryInOrder ==
    [][\A s \in Subs : \A i \in DOMAIN channels[s] :
          ReadBy(s, i)' # ReadBy(s, i)
          => LET new == ReadBy(s, i)' \ ReadBy(s, i)
                 batch == XReadBatch(s, i)
                 receive == MsgIds(FilterMessages(s,
                               [j \in DOMAIN batch |-> ParseMessage(s, batch[j])]).receive)
             IN /\ \A a \in ReadBy(s, i) : \A b \in new : a < b
                /\ \A j \in DOMAIN receive : \A x \in DOMAIN receive :
                      j < x => receive[j] < receive[x]
                /\ \E n \in 1..Len(receive) : new = Range(SubSeq(receive, 1, n))
      ]_vars

C28_Witness ==
    /\ Cardinality(ReadBy("s1", 1)) >= 2
    /\ \E id \in ReadBy("s1", 1) : att[id][1].st = "resolved"

\* The message was republished by reprocessRejectedMessages: its entry has the
\* fields action, data, 'group', group.
Republished(id) ==
    /\ Published(id)
    /\ Len(Entry("c1", id).fields) = 4
    /\ Entry("c1", id).fields[3] = "group"

\* C29: the group that reprocess wrote into a republished message is what a
\* Subscriber's parser gives as the message's group, and the callback is
\* invoked for the message by Subscribers of that group only.
C29_OnlyTheTaggedGroup ==
    \A id \in Ids :
        Republished(id)
        => /\ \A s \in Subs : ParseMessage(s, Entry("c1", id)).group = Entry("c1", id).fields[4]
           /\ \A n \in DOMAIN att[id] : group[att[id][n].sub] = Entry("c1", id).fields[4]

\* C29 for the invocations made on the new-message path.
C29_OnReadPath ==
    \A id \in Ids :
        Republished(id)
        => /\ \A s \in Subs : ParseMessage(s, Entry("c1", id)).group = Entry("c1", id).fields[4]
           /\ \A n \in FirstDeliveries(id) : group[att[id][n].sub] = Entry("c1", id).fields[4]

\* C30: a read, a query of the pending entries or a claim of a Subscriber
\* reaches the store for a channel only when the Subscriber's group exists on
\* that channel (a read names all the channels of the Subscriber).
C30_GroupsBeforeReads ==
    \A s \in Subs :
        /\ HeadIs(s, "XREADGROUP") => GroupsExist(s)
        /\ (HeadIs(s, "XPENDING") \/ HeadIs(s, "XCLAIM"))
           => groups[Key(s, Head(queue[s]).ch)].exists

\* C31: no message is both acknowledged as CONFIRMED, its callback having
\* completed, and in the dead-letter stream.
C31_ConfirmedOrDeadLettered ==
    \A id \in Ids : ~(Logged(id, "CONFIRMED") /\ DeadLetters(id) # {})

\* C32: every message that is acknowledged as REJECTED gets a record in the
\* dead-letter stream in the end, whatever the error callback does.
C32_RejectedIsNeverLost ==
    \A id \in Ids : Logged(id, "REJECTED") ~> (DeadLetters(id) # {})

\* C33: once unsubscribe has returned, the Subscriber has no read or claim
\* under way, is a consumer of no group and owns no pending entry.
C33_StaysRemoved ==
    \A s \in Subs :
        unsub[s] = "returned"
        => /\ ~\E j \in DOMAIN queue[s] : IsCycleCmd(queue[s][j])
           /\ \A k \in Keys :
                /\ s \notin groups[k].consumers
                /\ \A p \in pel[k] : p.owner # s

\* C33, the pending entries alone: it owns none.
C33_OwnsNothing ==
    \A s \in Subs :
        unsub[s] = "returned" => \A k \in Keys : \A p \in pel[k] : p.owner # s

\* C34: the outcomes of reprocess match the store, record by record: a record
\* that goes to failed has not been appended to a channel and is still in the
\* dead-letter stream, and a record that goes to succeeded has been appended
\* and is no longer in the dead-letter stream.
C34_OutcomesMatchStore ==
    [][(InLoop /\ ~IsMissing(Handling))
       => /\ adm'.failed # adm.failed
             => /\ adm.pc = "xadd"
                /\ stream' = stream
                /\ \E j \in DOMAIN rejections' :
                      rejections'[j].id = Handling.id /\ ~rejections'[j].del
          /\ adm'.succeeded # adm.succeeded
             => /\ adm.pc = "xdel"
                /\ ~\E j \in DOMAIN rejections' :
                      rejections'[j].id = Handling.id /\ ~rejections'[j].del]_vars

====
